---- MODULE Spec2Model ----
(***************************************************************************)
(* Model of lambdas/validate_logic/app.py: the validator Lambda handler.   *)
(*                                                                         *)
(* The host runs invocations of lambda_handler(event, context).  An event  *)
(* is a Python dict living on a heap; the host either builds a new dict    *)
(* for a call or passes a dict that a call in progress already holds, so   *)
(* two invocations may work on the very same object.  An invocation is a   *)
(* frame holding the handler's parameters and locals; it executes the      *)
(* three statements of the function (line 5, line 6, lines 8-12) one at a  *)
(* time, so that invocations interleave.                                   *)
(*                                                                         *)
(* Python values are records [type, data]; data is a sequence of naturals: *)
(* the code points of a str, the elements of a list, the keys of a dict,   *)
(* the digits/payload of a number, <<>> for None.                          *)
(***************************************************************************)
EXTENDS Integers, Sequences, FiniteSets, TLC

\* ---------------------------------------------------------------- bounds
NumProcs == 2        \* invocation slots that may run concurrently

Procs == 1..NumProcs

\* ---------------------------------------------------------------- values
PyStr(s)   == [type |-> "str",      data |-> s]
PyInt(n)   == [type |-> "int",      data |-> <<n>>]
PyFloat(n) == [type |-> "float",    data |-> <<n>>]
PyBool(b)  == [type |-> "bool",     data |-> <<b>>]
PyList(s)  == [type |-> "list",     data |-> s]
PyDict(s)  == [type |-> "dict",     data |-> s]
PyNone     == [type |-> "NoneType", data |-> << >>]

\* the literal "" of line 5
EmptyStr == PyStr(<< >>)

\* str inputs, as code points: "abc", "test", " ab " (and ""); "hello" is
\* the value of the unrelated key in OtherDict
StrAbc   == PyStr(<<97, 98, 99>>)
StrTest  == PyStr(<<116, 101, 115, 116>>)
StrHello == PyStr(<<104, 101, 108, 108, 111>>)
StrPad   == PyStr(<<32, 97, 98, 32>>)
StrValues == {EmptyStr, StrAbc, StrTest, StrPad}

\* non-str inputs: 12345, 1.5, True, None, [1,2,3,4,5], a dict of 4 keys
List5 == PyList(<<1, 2, 3, 4, 5>>)
Dict4 == PyDict(<<1, 2, 3, 4>>)
NonStrValues == {PyInt(12345), PyFloat(15), PyBool(1), PyNone, List5, Dict4}

Values == StrValues \cup NonStrValues

\* ---------------------------------------------------------------- events
\* An event is a dict: a function from the keys it holds to values.
Keys == {"input", "other"}

EmptyDict == [k \in {} |-> PyNone]
InputDict(v) == [k \in {"input"} |-> v]
OtherDict(v) == [k \in {"other"} |-> v]

Events == {EmptyDict} \cup {InputDict(v) : v \in Values} \cup {OtherDict(StrHello)}

Contexts == {"ctxA", "ctxB"}

\* ------------------------------------------------------- Python builtins
NoExc == "none"

\* event["input"]: KeyError when the key is missing
dict_getitem(d, key, default) ==
  IF key \in DOMAIN d
    THEN [exc |-> NoExc, ret |-> d[key], self |-> d]
    ELSE [exc |-> "KeyError", ret |-> default, self |-> d]

\* dict.pop(key, default): as get, but the key is removed from the receiver
dict_pop(d, key, default) ==
  [exc  |-> NoExc,
   ret  |-> IF key \in DOMAIN d THEN d[key] ELSE default,
   self |-> [k \in DOMAIN d \ {key} |-> d[k]]]

\* dict.get(key, default): the value returned and the receiver afterwards
dict_get(d, key, default) ==
  [exc  |-> NoExc,
   ret  |-> IF key \in DOMAIN d THEN d[key] ELSE default,
   self |-> d]

\* isinstance(v, str)
isinstance_str(v) == v.type = "str"

\* len(v): TypeError for objects that have no length
py_len(v) ==
  IF v.type \in {"str", "list", "dict"}
    THEN [exc |-> NoExc, ret |-> Len(v.data)]
    ELSE [exc |-> "TypeError", ret |-> 0]

\* ---------------------------------------------------------------- frames
NoResponse == [input |-> PyNone, is_valid |-> FALSE, message |-> ""]

IdleFrame ==
  [pc |-> "idle", event |-> 0, context |-> "", input_value |-> PyNone,
   is_valid |-> FALSE, response |-> NoResponse, exc |-> NoExc]

VARIABLES
  heap,     \* live event objects: object id -> dict
  frame     \* invocation slots: parameters, locals and position of each call
vars == <<heap, frame>>

\* ------------------------------------------------------ handler statements
\* truthiness of a value: None, False, 0, "", [] and {} are falsy
truthy(v) ==
  CASE v.type = "NoneType" -> FALSE
    [] v.type \in {"int", "float", "bool"} -> v.data # <<0>>
    [] OTHER -> v.data # << >>

\* variant: event.get("input") or ""
Line5_or_default(f, ev) ==
  LET g == dict_get(ev, "input", PyNone)
  IN  [g EXCEPT !.ret = IF truthy(g.ret) THEN g.ret ELSE EmptyStr]

\* line 5: input_value = event.get("input", "")
Line5(f, ev) == dict_get(ev, "input", EmptyStr)

\* the comparison of line 6 with another operator or bound
len_cmp(v, ok(_)) ==
  LET l == py_len(v)
  IN  IF l.exc # NoExc THEN [exc |-> l.exc, ret |-> FALSE]
                       ELSE [exc |-> NoExc, ret |-> ok(l.ret)]

\* variant: ... and len(input_value) >= 3
Line6_ge3(f) ==
  IF ~isinstance_str(f.input_value)
    THEN [exc |-> NoExc, ret |-> FALSE]
    ELSE len_cmp(f.input_value, LAMBDA n : n >= 3)

\* variant: ... and len(input_value) > 4
Line6_gt4(f) ==
  IF ~isinstance_str(f.input_value)
    THEN [exc |-> NoExc, ret |-> FALSE]
    ELSE len_cmp(f.input_value, LAMBDA n : n > 4)

\* variant: len(input_value) > 3, without the type test
Line6_no_isinstance(f) == len_cmp(f.input_value, LAMBDA n : n > 3)

\* variant: len(input_value) > 3 and isinstance(input_value, str)
Line6_len_first(f) ==
  LET c == len_cmp(f.input_value, LAMBDA n : n > 3)
  IN  IF c.exc # NoExc THEN c
      ELSE [exc |-> NoExc, ret |-> c.ret /\ isinstance_str(f.input_value)]

\* line 6: isinstance(input_value, str) and len(input_value) > 3
\* ("and" evaluates len only when isinstance is true)
Line6(f) ==
  IF ~isinstance_str(f.input_value)
    THEN [exc |-> NoExc, ret |-> FALSE]
    ELSE LET l == py_len(f.input_value)
         IN  IF l.exc # NoExc
               THEN [exc |-> l.exc, ret |-> FALSE]
               ELSE [exc |-> NoExc, ret |-> l.ret > 3]

\* str.strip() on code points: leading and trailing blanks removed
RECURSIVE lstrip(_)
lstrip(s) == IF s # << >> /\ Head(s) = 32 THEN lstrip(Tail(s)) ELSE s
RECURSIVE rstrip(_)
rstrip(s) == IF s # << >> /\ s[Len(s)] = 32 THEN rstrip(SubSeq(s, 1, Len(s) - 1)) ELSE s
strip(v) == IF v.type = "str" THEN PyStr(rstrip(lstrip(v.data))) ELSE v

\* variant: the two messages exchanged
Line8_swapped(f) ==
  [input    |-> f.input_value,
   is_valid |-> f.is_valid,
   message  |-> IF f.is_valid THEN "Invalid input" ELSE "Valid input"]

\* variant: "input": input_value.strip()
Line8_strip(f) ==
  [input    |-> strip(f.input_value),
   is_valid |-> f.is_valid,
   message  |-> IF f.is_valid THEN "Valid input" ELSE "Invalid input"]

\* variant: the verdict also consults the context argument
Line8_context(f) ==
  [input    |-> f.input_value,
   is_valid |-> f.is_valid /\ f.context = "ctxA",
   message  |-> IF f.is_valid /\ f.context = "ctxA" THEN "Valid input" ELSE "Invalid input"]

\* lines 8-12: the returned dict
Line8(f) ==
  [input    |-> f.input_value,
   is_valid |-> f.is_valid,
   message  |-> IF f.is_valid THEN "Valid input" ELSE "Invalid input"]

\* the whole handler run alone on an event of its own
lambda_handler(ev, context) ==
  LET f0 == [IdleFrame EXCEPT !.context = context]
      g  == Line5(f0, ev)
      f1 == [f0 EXCEPT !.input_value = g.ret]
      c  == Line6(f1)
      f2 == [f1 EXCEPT !.is_valid = c.ret]
  IN  IF g.exc # NoExc THEN [exc |-> g.exc, response |-> NoResponse]
      ELSE IF c.exc # NoExc THEN [exc |-> c.exc, response |-> NoResponse]
      ELSE [exc |-> NoExc, response |-> Line8(f2)]

\* ---------------------------------------------------------------- actions
Init ==
  /\ heap = [o \in {} |-> EmptyDict]
  /\ frame = [p \in Procs |-> IdleFrame]

\* Object ids are addresses without meaning: a live event is named by the
\* lowest invocation slot that holds it, and an event nobody holds is gone.
Holders(fr, o) == {p \in Procs : fr[p].pc # "idle" /\ fr[p].event = o}
Lowest(S) == CHOOSE p \in S : \A q \in S : p <= q
NameOf(fr, o) == Lowest(Holders(fr, o))
LiveHeap(h, fr) ==
  LET live == {o \in DOMAIN h : Holders(fr, o) # {}}
  IN  [n \in {NameOf(fr, o) : o \in live} |->
         h[CHOOSE o \in live : NameOf(fr, o) = n]]
LiveFrames(h, fr) ==
  [p \in Procs |->
     IF fr[p].pc = "idle" THEN fr[p]
     ELSE [fr[p] EXCEPT !.event = NameOf(fr, fr[p].event)]]

\* an id no live event has
NewId == 0

\* the host builds a new event and calls lambda_handler(event, context)
Invoke(p, ev, c) ==
  /\ frame[p].pc = "idle"
  /\ LET h  == [o \in DOMAIN heap \cup {NewId} |-> IF o = NewId THEN ev ELSE heap[o]]
         fr == [frame EXCEPT ![p] =
                  [IdleFrame EXCEPT !.pc = "l5", !.event = NewId, !.context = c]]
     IN  /\ heap' = LiveHeap(h, fr)
         /\ frame' = LiveFrames(h, fr)

\* the host calls lambda_handler with the event object invocation q holds
InvokeShared(p, q, c) ==
  /\ frame[p].pc = "idle"
  /\ frame[q].pc # "idle"
  /\ LET fr == [frame EXCEPT ![p] =
                  [IdleFrame EXCEPT !.pc = "l5", !.event = frame[q].event, !.context = c]]
     IN  /\ heap' = LiveHeap(heap, fr)
         /\ frame' = LiveFrames(heap, fr)

GetInput(p) ==
  /\ frame[p].pc = "l5"
  /\ LET f == frame[p]
         g == Line5(f, heap[f.event])
     IN  /\ heap' = [heap EXCEPT ![f.event] = g.self]
         /\ frame' = [frame EXCEPT ![p] =
              IF g.exc # NoExc
                THEN [f EXCEPT !.pc = "raised", !.exc = g.exc]
                ELSE [f EXCEPT !.pc = "l6", !.input_value = g.ret]]

ComputeIsValid(p) ==
  /\ frame[p].pc = "l6"
  /\ LET f == frame[p]
         c == Line6(f)
     IN  frame' = [frame EXCEPT ![p] =
              IF c.exc # NoExc
                THEN [f EXCEPT !.pc = "raised", !.exc = c.exc]
                ELSE [f EXCEPT !.pc = "l8", !.is_valid = c.ret]]
  /\ UNCHANGED heap

ReturnResponse(p) ==
  /\ frame[p].pc = "l8"
  /\ LET f == frame[p]
     IN  frame' = [frame EXCEPT ![p] = [f EXCEPT !.pc = "done", !.response = Line8(f)]]
  /\ UNCHANGED heap

\* the host consumes the outcome; the frame is gone, and so is the event
\* once no other invocation holds it
Discard(p) ==
  /\ frame[p].pc \in {"done", "raised"}
  /\ LET fr == [frame EXCEPT ![p] = IdleFrame]
     IN  /\ heap' = LiveHeap(heap, fr)
         /\ frame' = LiveFrames(heap, fr)

Step(p) == GetInput(p) \/ ComputeIsValid(p) \/ ReturnResponse(p)

Next ==
  \/ \E p \in Procs, ev \in Events, c \in Contexts : Invoke(p, ev, c)
  \/ \E p, q \in Procs, c \in Contexts : InvokeShared(p, q, c)
  \/ \E p \in Procs : GetInput(p)
  \/ \E p \in Procs : ComputeIsValid(p)
  \/ \E p \in Procs : ReturnResponse(p)
  \/ \E p \in Procs : Discard(p)

Spec == Init /\ [][Next]_vars

\* ------------------------------------------------------------- properties
Request(p)   == heap[frame[p].event]       \* defined while p is not idle
Done(p)      == frame[p].pc = "done"
Raised(p)    == frame[p].pc = "raised"
Running(p)   == frame[p].pc \in {"l5", "l6", "l8"}
HasInput(p)  == "input" \in DOMAIN Request(p)
\* the value the request carries under "input", "" when it carries none
Extracted(p) == IF HasInput(p) THEN Request(p)["input"] ELSE EmptyStr

Invalid(v) == [input |-> v, is_valid |-> FALSE, message |-> "Invalid input"]
Valid(v)   == [input |-> v, is_valid |-> TRUE,  message |-> "Valid input"]

\* C1: is_valid is true exactly when the extracted value is a str whose
\* length is strictly greater than 3 (so length 4 is valid, length 3 is not).
C1_IsValidIff ==
  \A p \in Procs : Done(p) =>
    (frame[p].response.is_valid = TRUE
       <=> (Extracted(p).type = "str" /\ Len(Extracted(p).data) > 3))

C1_Witness ==
  \E p, q \in Procs :
    /\ Done(p) /\ HasInput(p) /\ Extracted(p).type = "str"
    /\ Len(Extracted(p).data) = 4 /\ frame[p].response.is_valid
    /\ Done(q) /\ HasInput(q) /\ Extracted(q).type = "str"
    /\ Len(Extracted(q).data) = 3 /\ ~frame[q].response.is_valid

\* C2: message is "Valid input" when is_valid is true and "Invalid input"
\* when it is false; no other pair is ever returned.
C2_MessageMatches ==
  \A p \in Procs : Done(p) =>
    \/ frame[p].response.is_valid = TRUE  /\ frame[p].response.message = "Valid input"
    \/ frame[p].response.is_valid = FALSE /\ frame[p].response.message = "Invalid input"

C2_Witness ==
  \E p, q \in Procs :
    /\ Done(p) /\ frame[p].response.message = "Valid input"
    /\ Done(q) /\ frame[q].response.message = "Invalid input"

\* C3 as stated: the request {"input": "test"} is answered with
\* is_valid = false and message "Invalid input".
C3_Original ==
  \A p \in Procs : Done(p) /\ Request(p) = InputDict(StrTest) =>
    frame[p].response = Invalid(StrTest)

\* C3 amended: the request {"input": "test"} is answered with
\* {"input": "test", "is_valid": true, "message": "Valid input"}.
C3_TestIsValid ==
  \A p \in Procs : Done(p) /\ Request(p) = InputDict(StrTest) =>
    frame[p].response = Valid(StrTest)

C3_Witness ==
  \E p \in Procs : Done(p) /\ Request(p) = InputDict(StrTest)

\* C4: a request without the key "input" raises nothing and is answered
\* with input "", is_valid false, message "Invalid input".
C4_MissingKey ==
  \A p \in Procs : frame[p].pc # "idle" /\ ~HasInput(p) =>
    /\ ~Raised(p)
    /\ Done(p) => frame[p].response = Invalid(EmptyStr)

C4_Witness ==
  \E p, q \in Procs :
    /\ Done(p) /\ Request(p) = EmptyDict
    /\ Done(q) /\ Request(q) = OtherDict(StrHello)

\* C5: every non-str value under "input", also one with a length above 3
\* of its own, is answered with is_valid false and "Invalid input".
C5_NonStrInvalid ==
  \A p \in Procs : Done(p) /\ HasInput(p) /\ Extracted(p).type # "str" =>
    /\ frame[p].response.is_valid = FALSE
    /\ frame[p].response.message = "Invalid input"

C5_Witness ==
  \E p, q \in Procs :
    /\ Done(p) /\ Request(p) = InputDict(List5)
    /\ Done(q) /\ HasInput(q) /\ Extracted(q).type \in {"int", "float", "bool", "NoneType", "dict"}

\* C6: the handler is total: no invocation ends in an error, and every
\* invocation that has not returned yet can take its next statement.
C6_Total ==
  \A p \in Procs :
    /\ ~Raised(p)
    /\ Running(p) => ENABLED Step(p)

C6_Witness ==
  \E p, q \in Procs :
    /\ Done(p) /\ HasInput(p) /\ Extracted(p).type \in {"int", "float", "bool", "NoneType"}
    /\ Done(q) /\ ~HasInput(q)

\* C7: the input field of the response is the extracted value itself,
\* same type and same content, for valid and invalid values alike.
C7_PassThrough ==
  \A p \in Procs : Done(p) =>
    /\ frame[p].response.input = frame[p].input_value
    /\ frame[p].response.input = Extracted(p)

C7_Witness ==
  \E p, q \in Procs :
    /\ Done(p) /\ Request(p) = InputDict(StrPad) /\ frame[p].response.is_valid
    /\ Done(q) /\ HasInput(q) /\ Extracted(q).type # "str"

\* C8: two calls with the same request return identical responses,
\* whatever their context arguments and whatever ran in between.
C8_SameRequestSameResponse ==
  \A p, q \in Procs :
    Done(p) /\ Done(q) /\ Request(p) = Request(q) =>
      frame[p].response = frame[q].response

C8_Witness ==
  \E p, q \in Procs :
    /\ p # q /\ Done(p) /\ Done(q)
    /\ frame[p].event # frame[q].event
    /\ frame[p].context # frame[q].context
    /\ Request(p) = Request(q)
    /\ frame[p].response.is_valid

\* C9: under any interleaving, an invocation ends as it would when run
\* alone on its request, and no statement of the handler changes an event.
C9_Outcome ==
  \A p \in Procs : Done(p) \/ Raised(p) =>
    LET alone == lambda_handler(Request(p), frame[p].context)
    IN  /\ frame[p].exc = alone.exc
        /\ frame[p].response = alone.response

C9_Independent ==
  /\ []C9_Outcome
  /\ [][(\E p \in Procs : Step(p)) => heap' = heap]_vars

C9_Witness ==
  \E p, q \in Procs :
    /\ p # q
    /\ frame[p].event = frame[q].event
    /\ frame[p].pc = "l8" /\ frame[q].pc = "l6"
    /\ HasInput(p)

\* C10: the default "" is used only for an absent key: a key present and
\* bound to None is answered with input None, is_valid false, "Invalid input".
C10_NonePassedThrough ==
  \A p \in Procs : Done(p) /\ HasInput(p) /\ Request(p)["input"] = PyNone =>
    frame[p].response = Invalid(PyNone)

C10_Witness ==
  \E p \in Procs :
    /\ Done(p) /\ HasInput(p) /\ Request(p)["input"] = PyNone
    /\ frame[p].response.input # EmptyStr

====
